---- MODULE Spec2Model ----
(***************************************************************************)
(* Model of src/app.py: the Flask handler salesforce_hook that projects    *)
(* Salesforce change records into a Neo4j property graph.                  *)
(*                                                                         *)
(* The graph is a sequence of nodes (the position is the store's internal  *)
(* node identity; each node has one label and a property map) and a set of *)
(* relationships <<from, type, to>> between node positions.  A property    *)
(* that is absent reads as Null, as in Cypher.  Every execute_write is one *)
(* transaction and is modelled as one atomic step; the handler itself is   *)
(* not atomic, so several requests interleave between their transactions.  *)
(***************************************************************************)
EXTENDS Naturals, Sequences, FiniteSets, TLC

(* ------------------------------------------------------------------ *)
(* Bounds of the model                                                 *)
(* ------------------------------------------------------------------ *)

\* number of requests received over a behaviour
MaxCalls == 2

\* number of payload fields (fields other than Id) one record carries
MaxFields == 2

\* concurrent workers serving requests
Procs == {"w1", "w2"}

(* ------------------------------------------------------------------ *)
(* Values                                                              *)
(* ------------------------------------------------------------------ *)

\* JSON null / Python None / an absent Cypher property
Null == "null"

\* Salesforce Ids used as record keys
Keys == {"k1", "k2"}

Registered == {"Account", "Contact", "Product", "Case", "FeedItem", "Note"}

RefFields == {"AccountId", "ContactId", "ProductId", "ParentId"}

\* field names of a record other than Id; each is stored as a node property
PropNames == {"id", "Name"} \cup RefFields

FieldVals(f) ==
    CASE f = "id"   -> {Null, "k2"}
      [] f = "Name" -> {"n1"}
      [] OTHER      -> {Null, "k1"}

AllVals == UNION {FieldVals(f) : f \in PropNames}

\* the payloads over a set of field names: mappings from field name to scalar
PayloadsOver(names) ==
    UNION {{r \in [S -> AllVals] : \A f \in S : r[f] \in FieldVals(f)} :
             S \in {T \in SUBSET names : Cardinality(T) <= MaxFields}}

\* the record with key k and the fields of payload
Keyed(k, payload) ==
    [f \in {"Id"} \cup DOMAIN payload |-> IF f = "Id" THEN k ELSE payload[f]]

\* Python truthiness of a scalar (None and "" are falsy)
Truthy(v) == v \notin {Null, ""}

(* ------------------------------------------------------------------ *)
(* Store primitives (the Cypher statements)                            *)
(* ------------------------------------------------------------------ *)

BlankProps == [f \in PropNames |-> Null]

\* MATCH (x:label {id: key})
Match(ns, label, key) ==
    {i \in DOMAIN ns : ns[i].label = label /\ ns[i].props["id"] = key}

\* SET a += $fields as a full replace (SET a = $fields): a plausible slip
OverlayAsReplace(props, fields) ==
    [f \in PropNames |-> IF f \in DOMAIN fields THEN fields[f] ELSE Null]

\* SET a += $fields : named properties take the new value (null removes),
\* the others keep theirs
Overlay(props, fields) ==
    [f \in PropNames |-> IF f \in DOMAIN fields THEN fields[f] ELSE props[f]]

\* MERGE (a:label {id: $key}) ON CREATE SET a += $fields ON MATCH SET a += $fields
MergeNode(s, label, key, fields) ==
    LET m == Match(s.n, label, key) IN
    IF m = {}
    THEN [s EXCEPT !.n = Append(s.n,
            [label |-> label,
             props |-> Overlay([BlankProps EXCEPT !["id"] = key], fields)])]
    ELSE [s EXCEPT !.n = [i \in DOMAIN s.n |->
            IF i \in m THEN [s.n[i] EXCEPT !.props = Overlay(@, fields)]
                       ELSE s.n[i]]]

\* create_relationship that merges the whole pattern, creating the endpoints
CreateRelationshipWithStubs(s, from_label, from_id, rel_type, to_label, to_id) ==
    LET s1 == MergeNode(s, from_label, from_id, <<>>)
        s2 == MergeNode(s1, to_label, to_id, <<>>)
    IN [s2 EXCEPT !.e = @ \cup
          {<<a, rel_type, b>> : a \in Match(s2.n, from_label, from_id),
                                b \in Match(s2.n, to_label, to_id)}]

\* MATCH (a:from_label {id}) MATCH (b:to_label {id}) MERGE (a)-[r:rel_type]->(b)
create_relationship(s, from_label, from_id, rel_type, to_label, to_id) ==
    [s EXCEPT !.e = @ \cup
        {<<a, rel_type, b>> : a \in Match(s.n, from_label, from_id),
                              b \in Match(s.n, to_label, to_id)}]

(* ------------------------------------------------------------------ *)
(* The handler's per-type branches                                     *)
(* ------------------------------------------------------------------ *)

\* the references each branch of salesforce_hook links, in program order
Rules(sobject) ==
    CASE sobject = "Contact"  ->
           <<[field |-> "AccountId", label |-> "Account", rel |-> "HAS_CONTACT"]>>
      [] sobject = "Case"     ->
           <<[field |-> "AccountId", label |-> "Account", rel |-> "HAS_CASE"],
             [field |-> "ContactId", label |-> "Contact", rel |-> "HAS_CASE"],
             [field |-> "ProductId", label |-> "Product", rel |-> "HAS_CASE"]>>
      [] sobject = "FeedItem" ->
           <<[field |-> "ParentId", label |-> "Case", rel |-> "HAS_FEEDITEM"]>>
      [] sobject = "Note"     ->
           <<[field |-> "ParentId", label |-> "Case", rel |-> "HAS_NOTE"]>>
      [] OTHER                -> <<>>

\* if "<field>" in record and record["<field>"]
RefPresent(record, field) == field \in DOMAIN record /\ Truthy(record[field])

\* the first rule at or after position from whose reference is present, or 0
NextRule(sobject, record, from) ==
    LET c == {i \in DOMAIN Rules(sobject) :
                 i >= from /\ RefPresent(record, Rules(sobject)[i].field)}
    IN IF c = {} THEN 0 ELSE CHOOSE i \in c : \A j \in c : i <= j

\* fields = {k: v for k, v in record.items() if k != "Id"}
Fields(record) == [f \in DOMAIN record \ {"Id"} |-> record[f]]

\* the edge merge of rule i of the request's branch
ApplyRule(s, sobject, record, i) ==
    LET r == Rules(sobject)[i] IN
    create_relationship(s, r.label, record[r.field], r.rel, sobject, record["Id"])

(* ------------------------------------------------------------------ *)
(* Requests                                                            *)
(* ------------------------------------------------------------------ *)

\* the payload fields a record of a type carries: two plain attributes (one
\* of them spelled like the store's key property) and the type's references
Schema(sobject) ==
    {"id", "Name"} \cup {Rules(sobject)[i].field : i \in DOMAIN Rules(sobject)}

Envelope(op, so, rec) == [operation |-> op, sobject |-> so, record |-> rec]

\* records with a key, for each registered type
Upserts ==
    UNION {{Envelope("upsert", so, Keyed(k, pl)) :
               k \in Keys, pl \in PayloadsOver(Schema(so))} : so \in Registered}

\* non-empty records whose Id is absent or null, for each registered type
Keyless ==
    UNION {{ Envelope("upsert", so, [Name |-> "n1"]),
             Envelope("upsert", so, [Id |-> Null]),
             Envelope("upsert", so, [Id |-> Null, Name |-> "n1"]) } : so \in Registered}

\* an unregistered object name
Unregistered ==
    { Envelope("upsert", "Lead", [Id |-> "k1"]),
      Envelope("upsert", "Lead", [Name |-> "n1"]) }

\* envelopes lacking the operation, the object or the record
Malformed ==
    { Envelope(Null, "Account", [Id |-> "k1"]),
      Envelope("upsert", Null, [Id |-> "k1"]),
      Envelope("upsert", "Account", <<>>),
      Envelope(Null, "Lead", <<>>) }

Requests == Upserts \cup Keyless \cup Unregistered \cup Malformed

(* ------------------------------------------------------------------ *)
(* Responses                                                           *)
(* ------------------------------------------------------------------ *)

NoResp == [code |-> 0, msg |-> "none", arg |-> Null]
Success == [code |-> 200, msg |-> "success", arg |-> Null]
InvalidPayload == [code |-> 400, msg |-> "Invalid data payload", arg |-> Null]

\* the else branch answered as a success: a silent no-op
UnhandledAsSuccess(sobject) == [code |-> 200, msg |-> "success", arg |-> Null]

Unhandled(sobject) == [code |-> 400, msg |-> "Unhandled sobject", arg |-> sobject]

\* record["Id"] raises KeyError; Flask answers an unhandled exception with 500
KeyErrorResp == [code |-> 500, msg |-> "KeyError", arg |-> "Id"]
\* the store rejects MERGE on a null property value; the exception is unhandled
NullMergeResp == [code |-> 500, msg |-> "Neo4jError", arg |-> "id"]
\* a transaction that fails (connection lost, store unavailable)
StoreErrorResp == [code |-> 500, msg |-> "ServiceUnavailable", arg |-> Null]

NoReq == [operation |-> Null, sobject |-> Null, record |-> <<>>]

(* ------------------------------------------------------------------ *)
(* State                                                               *)
(* ------------------------------------------------------------------ *)

VARIABLES nodes, edges, pc, req, rule, resp, calls

vars == <<nodes, edges, pc, req, rule, resp, calls>>

store == [n |-> nodes, e |-> edges]

Init ==
    /\ nodes = <<>>
    /\ edges = {}
    /\ pc = [p \in Procs |-> "idle"]
    /\ req = [p \in Procs |-> NoReq]
    /\ rule = [p \in Procs |-> 0]
    /\ resp = [p \in Procs |-> NoResp]
    /\ calls = 0

\* return jsonify(...), code
Respond(p, r) ==
    /\ pc' = [pc EXCEPT ![p] = "idle"]
    /\ req' = [req EXCEPT ![p] = NoReq]
    /\ rule' = [rule EXCEPT ![p] = 0]
    /\ resp' = [resp EXCEPT ![p] = r]

\* after a transaction: go to the next present reference, or answer success
Advance(p, from) ==
    LET i == NextRule(req[p].sobject, req[p].record, from) IN
    IF i = 0
    THEN Respond(p, Success)
    ELSE /\ pc' = [pc EXCEPT ![p] = "edge"]
         /\ rule' = [rule EXCEPT ![p] = i]
         /\ UNCHANGED <<req, resp>>

\* a POST arrives at /salesforce-hook
Receive(p) ==
    /\ pc[p] = "idle"
    /\ calls < MaxCalls
    /\ \E r \in Requests : req' = [req EXCEPT ![p] = r]
    /\ pc' = [pc EXCEPT ![p] = "recv"]
    /\ resp' = [resp EXCEPT ![p] = NoResp]
    /\ calls' = calls + 1
    /\ UNCHANGED <<nodes, edges, rule>>

\* envelope validation and the dispatch on sobject, up to the first transaction
Dispatch(p) ==
    /\ pc[p] = "recv"
    /\ UNCHANGED <<nodes, edges, calls>>
    /\ IF \/ ~Truthy(req[p].operation)
          \/ ~Truthy(req[p].sobject)
          \/ DOMAIN req[p].record = {}
       THEN Respond(p, InvalidPayload)
       ELSE IF req[p].sobject \notin Registered
       THEN Respond(p, Unhandled(req[p].sobject))
       ELSE IF "Id" \notin DOMAIN req[p].record
       THEN Respond(p, KeyErrorResp)
       ELSE /\ pc' = [pc EXCEPT ![p] = "node"]
            /\ UNCHANGED <<req, rule, resp>>

\* session.execute_write(upsert_<type>, record["Id"], fields)
UpsertNode(p) ==
    /\ pc[p] = "node"
    /\ UNCHANGED calls
    /\ IF req[p].record["Id"] = Null
       THEN /\ Respond(p, NullMergeResp)
            /\ UNCHANGED <<nodes, edges>>
       ELSE /\ LET s == MergeNode(store, req[p].sobject, req[p].record["Id"],
                                  Fields(req[p].record))
               IN nodes' = s.n /\ edges' = s.e
            /\ Advance(p, 1)

\* session.execute_write(create_relationship, ...) of the current reference
CreateRelationship(p) ==
    /\ pc[p] = "edge"
    /\ UNCHANGED calls
    /\ LET s == ApplyRule(store, req[p].sobject, req[p].record, rule[p])
       IN nodes' = s.n /\ edges' = s.e
    /\ Advance(p, rule[p] + 1)

\* a transaction raises instead of committing; the exception is unhandled
StoreFailure(p) ==
    /\ pc[p] \in {"node", "edge"}
    /\ Respond(p, StoreErrorResp)
    /\ UNCHANGED <<nodes, edges, calls>>

Next ==
    \E p \in Procs :
        \/ Receive(p)
        \/ Dispatch(p)
        \/ UpsertNode(p)
        \/ CreateRelationship(p)
        \/ StoreFailure(p)

Spec == Init /\ [][Next]_vars

(* ------------------------------------------------------------------ *)
(* One request handled without interruption                            *)
(* ------------------------------------------------------------------ *)

\* the request never reaches a committed write: the envelope check, the else
\* branch, record["Id"] raising, or MERGE on a null key
Rejected(r) ==
    \/ ~Truthy(r.operation)
    \/ ~Truthy(r.sobject)
    \/ DOMAIN r.record = {}
    \/ r.sobject \notin Registered
    \/ "Id" \notin DOMAIN r.record
    \/ r.record["Id"] = Null

RECURSIVE LinkFrom(_, _, _, _, _)
\* the edge merges of the present references from rule position from on,
\* at most left of them
LinkFrom(s, sobject, record, from, left) ==
    LET i == NextRule(sobject, record, from) IN
    IF i = 0 \/ left = 0
    THEN s
    ELSE LinkFrom(ApplyRule(s, sobject, record, i), sobject, record, i + 1, left - 1)

\* the store after the node merge and the first k edge merges of request r
Prefix(s, r, k) ==
    IF Rejected(r)
    THEN s
    ELSE LinkFrom(MergeNode(s, r.sobject, r.record["Id"], Fields(r.record)),
                  r.sobject, r.record, 1, k)

\* the store after salesforce_hook has handled request r from store s
Project(s, r) == Prefix(s, r, Len(Rules(r.sobject)))

(* ------------------------------------------------------------------ *)
(* Views of the store used by the properties                           *)
(* ------------------------------------------------------------------ *)

KeyOf(s, i) == s.n[i].props["id"]

\* the edges by the identity of their endpoints
EdgeKeys(s) ==
    {<<s.n[e[1]].label, KeyOf(s, e[1]), e[2], s.n[e[3]].label, KeyOf(s, e[3])>> : e \in s.e}

\* the edges of type rel from a node (fl, fk) to a node (tl, tk)
EdgesBetween(s, fl, fk, rel, tl, tk) ==
    {e \in s.e : /\ e[2] = rel
                 /\ e[1] \in Match(s.n, fl, fk)
                 /\ e[3] \in Match(s.n, tl, tk)}

\* records that do not carry a field spelled like the store's key property
Plain(r) == "id" \notin DOMAIN r.record

\* worker p commits its node merge in this step
NodeMergeStep(p) == pc[p] = "node" /\ pc'[p] # "node" /\ resp'[p].code # 500

\* worker p commits an edge merge in this step
EdgeMergeStep(p) ==
    /\ pc[p] = "edge"
    /\ pc'[p] # "edge" \/ rule'[p] # rule[p]
    /\ resp'[p].code # 500

StoreUnchanged == nodes' = nodes /\ edges' = edges

(* ------------------------------------------------------------------ *)
(* C1                                                                  *)
(* ------------------------------------------------------------------ *)

\* C1: from every reachable store, handling the same request twice in a row
\* leaves exactly the graph that handling it once leaves.
C1_Idempotent ==
    \A r \in Requests : Project(Project(store, r), r) = Project(store, r)

(* ------------------------------------------------------------------ *)
(* C2                                                                  *)
(* ------------------------------------------------------------------ *)

\* C2: when the store holds no Account A, projecting a Contact that refers to
\* A and then the Account A ends with exactly one HAS_CONTACT edge from A to
\* the Contact, and with the same edges as projecting the Account first.
C2_OrderIndependent ==
    \A c \in Upserts, a \in Upserts :
        ( /\ c.sobject = "Contact" /\ a.sobject = "Account"
          /\ Plain(c) /\ Plain(a)
          /\ RefPresent(c.record, "AccountId")
          /\ a.record["Id"] = c.record["AccountId"]
          /\ Match(nodes, "Account", a.record["Id"]) = {} )
        => LET childFirst  == Project(Project(store, c), a)
               parentFirst == Project(Project(store, a), c)
           IN /\ Cardinality(EdgesBetween(childFirst, "Account", a.record["Id"],
                                "HAS_CONTACT", "Contact", c.record["Id"])) = 1
              /\ EdgeKeys(childFirst) = EdgeKeys(parentFirst)

(* ------------------------------------------------------------------ *)
(* C3                                                                  *)
(* ------------------------------------------------------------------ *)

\* C3: after projecting a record of type T with key k the store holds one
\* node (T, k) and, for every present non-null reference v, an edge of the
\* rule's type from the referenced entity (label, v) to (T, k); no attribute
\* of any other node is written.
C3_ProjectionResult ==
    \A r \in Upserts :
        Plain(r) =>
        LET s1 == Project(store, r)
            me == Match(s1.n, r.sobject, r.record["Id"])
        IN /\ Cardinality(me) = 1
           /\ \A i \in DOMAIN Rules(r.sobject) :
                 RefPresent(r.record, Rules(r.sobject)[i].field) =>
                    EdgesBetween(s1, Rules(r.sobject)[i].label,
                                 r.record[Rules(r.sobject)[i].field],
                                 Rules(r.sobject)[i].rel,
                                 r.sobject, r.record["Id"]) # {}
           /\ \A i \in DOMAIN nodes :
                 i \notin Match(nodes, r.sobject, r.record["Id"]) => s1.n[i] = nodes[i]

(* ------------------------------------------------------------------ *)
(* C4                                                                  *)
(* ------------------------------------------------------------------ *)

NoNullKeyedEdge(s) ==
    \A e \in s.e : KeyOf(s, e[1]) # Null /\ KeyOf(s, e[3]) # Null

\* no worker is in flight
Quiescent == \A p \in Procs : pc[p] = "idle"

\* C4: for a record with a non-null Id an absent or null reference is skipped:
\* no edge merge is pending for it, the request is not rejected, and neither
\* the store nor the store the next request leaves holds an edge with a null
\* source or target key.
C4_NullRefSkipped ==
    /\ \A p \in Procs :
          pc[p] = "edge" => RefPresent(req[p].record, Rules(req[p].sobject)[rule[p]].field)
    /\ NoNullKeyedEdge(store)
    /\ (Quiescent /\ edges # {}) =>
          \A r \in Upserts : ~Rejected(r) /\ NoNullKeyedEdge(Project(store, r))

(* ------------------------------------------------------------------ *)
(* C5                                                                  *)
(* ------------------------------------------------------------------ *)

UnknownTyped(r) ==
    /\ Truthy(r.operation) /\ Truthy(r.sobject) /\ DOMAIN r.record # {}
    /\ r.sobject \notin Registered

\* C5: a request naming an unregistered object, with operation and a
\* non-empty record, is answered 400 with the object's name, never reaches a
\* node or edge merge, and leaves the store as it is.
C5_UnknownTypeRejected ==
    /\ [](\A p \in Procs : pc[p] \in {"node", "edge"} => req[p].sobject \in Registered)
    /\ [][\A p \in Procs :
            (pc[p] = "recv" /\ pc'[p] # "recv" /\ UnknownTyped(req[p])) =>
               /\ pc'[p] = "idle"
               /\ resp'[p].code = 400
               /\ resp'[p].arg = req[p].sobject
               /\ StoreUnchanged]_vars

\* a worker has answered a request for the unregistered object Lead
C5_Witness ==
    \E p \in Procs : pc[p] = "idle" /\ resp[p].code = 400 /\ resp[p].arg = "Lead"

(* ------------------------------------------------------------------ *)
(* C6                                                                  *)
(* ------------------------------------------------------------------ *)

KeylessRequest(r) ==
    /\ Truthy(r.operation) /\ r.sobject \in Registered /\ DOMAIN r.record # {}
    /\ "Id" \notin DOMAIN r.record \/ r.record["Id"] = Null

\* C6: a request for a registered type whose non-empty record has no Id, or
\* a null Id, is answered with a client error and changes nothing.
C6_MissingKeyIsClientError ==
    [][\A p \in Procs :
         (pc[p] # "idle" /\ pc'[p] = "idle" /\ KeylessRequest(req[p])) =>
            /\ resp'[p].code = 400
            /\ StoreUnchanged]_vars

(* ------------------------------------------------------------------ *)
(* C7                                                                  *)
(* ------------------------------------------------------------------ *)

\* C7: the store never holds two nodes with the same label and the same key.
C7_NodeIdentityUnique ==
    \A i, j \in DOMAIN nodes :
        ( /\ nodes[i].label = nodes[j].label
          /\ nodes[i].props["id"] = nodes[j].props["id"]
          /\ nodes[i].props["id"] # Null ) => i = j

(* ------------------------------------------------------------------ *)
(* C8                                                                  *)
(* ------------------------------------------------------------------ *)

\* ns1 is ns after the fields f are overlaid on the nodes (l, k), or after one
\* node (l, k) with the fields f is created when ns holds none
NodeMergeRel(ns, ns1, l, k, f) ==
    LET m == Match(ns, l, k) IN
    /\ Len(ns1) = Len(ns) + (IF m = {} THEN 1 ELSE 0)
    /\ \A i \in DOMAIN ns :
          /\ ns1[i].label = ns[i].label
          /\ \A fld \in PropNames :
                ns1[i].props[fld] =
                   IF i \in m /\ fld \in DOMAIN f THEN f[fld] ELSE ns[i].props[fld]
    /\ m = {} =>
          /\ ns1[Len(ns1)].label = l
          /\ \A fld \in PropNames :
                ns1[Len(ns1)].props[fld] =
                   IF fld \in DOMAIN f THEN f[fld]
                   ELSE IF fld = "id" THEN k ELSE Null

\* edge e joins the entity rule i of request r refers to with r's own entity
NamedBy(ns, e, r, i) ==
    LET ru == Rules(r.sobject)[i] IN
    /\ RefPresent(r.record, ru.field)
    /\ e[2] = ru.rel
    /\ e[1] \in Match(ns, ru.label, r.record[ru.field])
    /\ e[3] \in Match(ns, r.sobject, r.record["Id"])

\* the node merge of worker p
NodeMergeEffect(p) ==
    /\ edges' = edges
    /\ NodeMergeRel(nodes, nodes', req[p].sobject, req[p].record["Id"],
                    Fields(req[p].record))

\* the edge merge of worker p adds only edges its current reference names
EdgeMergeEffect(p) ==
    /\ nodes' = nodes
    /\ edges \subseteq edges'
    /\ \A e \in edges' \ edges : NamedBy(nodes, e, req[p], rule[p])

\* store s1 is store s after one whole handling of request r
CallEffect(s, s1, r) ==
    /\ NodeMergeRel(s.n, s1.n, r.sobject, r.record["Id"], Fields(r.record))
    /\ s.e \subseteq s1.e
    /\ \A e \in s1.e \ s.e : \E i \in DOMAIN Rules(r.sobject) : NamedBy(s1.n, e, r, i)

\* C8: a node merge overlays: each field of the record other than Id takes
\* the record's value on the nodes (label, key), every other attribute of
\* those nodes and every attribute of every other node keeps its value, and
\* the only edges a request adds are those its references name; no edge is
\* removed.  Stated of every step of every worker, and of the next request
\* for an existing (label, key) handled from every store the workers leave.
C8_OverlayFrame ==
    /\ [][/\ \A p \in Procs :
                /\ NodeMergeStep(p) => NodeMergeEffect(p)
                /\ EdgeMergeStep(p) => EdgeMergeEffect(p)
          /\ (\A p \in Procs : ~NodeMergeStep(p) /\ ~EdgeMergeStep(p)) => StoreUnchanged]_vars
    /\ [](Quiescent =>
            \A r \in Upserts :
               Match(nodes, r.sobject, r.record["Id"]) # {} =>
                  CallEffect(store, Project(store, r), r))

\* a worker has merged a record without Name onto an existing node: the node
\* has the record's fields and still has the Name an earlier request wrote
C8_Witness ==
    \E p \in Procs :
        /\ pc[p] = "edge"
        /\ "Name" \notin DOMAIN req[p].record
        /\ \E i \in Match(nodes, req[p].sobject, req[p].record["Id"]) :
              /\ nodes[i].props["Name"] = "n1"
              /\ \A f \in DOMAIN Fields(req[p].record) :
                    nodes[i].props[f] = req[p].record[f]

(* ------------------------------------------------------------------ *)
(* C9                                                                  *)
(* ------------------------------------------------------------------ *)

\* C9: a request that stops after its node merge, or after any number of its
\* edge merges, and is then handled again from the top leaves the graph that
\* one uninterrupted handling leaves.
C9_RetrySafe ==
    \A r \in Upserts : \A k \in 0 .. Len(Rules(r.sobject)) :
        Project(Prefix(store, r, k), r) = Project(store, r)

(* ------------------------------------------------------------------ *)
(* C10                                                                 *)
(* ------------------------------------------------------------------ *)

AllowedTriples ==
    { <<"Account", "HAS_CONTACT", "Contact">>,
      <<"Account", "HAS_CASE", "Case">>,
      <<"Contact", "HAS_CASE", "Case">>,
      <<"Product", "HAS_CASE", "Case">>,
      <<"Case", "HAS_FEEDITEM", "FeedItem">>,
      <<"Case", "HAS_NOTE", "Note">> }

\* C10: every edge joins two nodes of the store, its (source label, type,
\* target label) is one of the six triples, and an edge merge creates no node.
C10_NoDanglingEdges ==
    /\ [](\A e \in edges :
             /\ e[1] \in DOMAIN nodes
             /\ e[3] \in DOMAIN nodes
             /\ <<nodes[e[1]].label, e[2], nodes[e[3]].label>> \in AllowedTriples)
    /\ [][\A p \in Procs : EdgeMergeStep(p) => nodes' = nodes]_vars

\* an edge merge has found both its endpoints and linked an Account to a
\* Contact, and the request that did it has been answered
C10_Witness ==
    /\ \E e \in edges :
          /\ nodes[e[1]].label = "Account"
          /\ e[2] = "HAS_CONTACT"
          /\ nodes[e[3]].label = "Contact"
    /\ \E p \in Procs : resp[p] = Success

TypeOK ==
    /\ \A i \in DOMAIN nodes : nodes[i].label \in Registered
    /\ \A p \in Procs : pc[p] \in {"idle", "recv", "node", "edge"}
    /\ calls <= MaxCalls
====
